---- MODULE Spec2Model ----
(***************************************************************************)
(* Model of the annuity pricing engine of simulateur-pricer                *)
(* (src/GitHub/pricer_engine.py, compute_annuity and its fee schedules).   *)
(*                                                                         *)
(* Numbers.  The engine computes on Python floats.  The model computes on  *)
(* exact decimal fixed-point integers:                                     *)
(*   - a fee rate (a fraction such as 0.0049) is an integer count of 1e-7, *)
(*     so 0.0049 is 49000; one digit finer than the six decimals the       *)
(*     engine reports, which makes round(x, 6) a real operation;           *)
(*   - a reported rate (after round(x, 6)) is an integer count of 1e-6;    *)
(*   - a curve value (percent, at most six decimals, such as 5.426667) is  *)
(*     an integer count of 1e-6 percent; divided by 100 it is the same     *)
(*     integer counted in 1e-8;                                            *)
(*   - an amount is a whole number of currency units.                      *)
(* The model checker's integers are 32 bits wide and the product           *)
(* amount * curve_rate * (1 - total_frais) is not, so that product is      *)
(* computed on base-1000 digit sequences (least significant digit first).  *)
(*                                                                         *)
(* Rounding.  Python's round() rounds the binary value of the float; where *)
(* the decimal value lies exactly half way between two candidates the      *)
(* binary value lies on one side or the other, and which side is a fact of *)
(* the floating-point representation that the decimal value does not       *)
(* decide.  The variable fp fixes, once and for the whole run, the side    *)
(* taken at each of the three rounding sites; every rounding that is not   *)
(* an exact decimal tie is independent of it.                              *)
(***************************************************************************)
EXTENDS Integers, Sequences, FiniteSets

VARIABLES
    fp,       \* floating-point tie directions: [fee, total, rente -> BOOLEAN]
    curve,    \* the module-level dict _CURVE, as it stands
    ref,      \* an earlier call and its outcome, kept for comparison
    http,     \* the /compute response: [variant, status, calls]
    alt,      \* the last call of compute of the stand-alone engine
    DATABASE_URL, \* the environment's value, "" when not set
    _pool,    \* the module-level pool: 0 is None, k > 0 the k-th pool built
    built,    \* how many pools _build_pool has constructed
    established, \* the pool _get_pool first returned, 0 before that
    started,  \* the startup handler has run
    db,       \* the startup or route call in flight, and its _with_db
    args,     \* the arguments of the last call of compute_annuity
    locals,   \* its local variables when it reached the return statement
    outcome,  \* "none" | "returned" | "raised"
    error,    \* the message of the ValueError raised, "" when none
    result    \* the dict returned (rates in 1e-6), zeros when none

engineVars == <<fp, curve, args, locals, outcome, error, result>>

dbVars == <<DATABASE_URL, _pool, built, established, started, db>>

\* what the startup handler and the database routes never touch
nonDbVars == <<engineVars, ref, http, alt>>

\* what compute_annuity and its routes never touch
otherVars == <<alt, dbVars>>

vars == <<engineVars, ref, http, otherVars>>

-----------------------------------------------------------------------------
(* Scales *)

\* rates are counted in 1e-7: RateScale is the rate 1.0
RateScale == 10 * 1000 * 1000

\* the digit base of the long products
Base == 10 * 10 * 10

\* curve_rate (1e-8) times a rate (1e-7) is counted in 1e-15 = Base^-5
ShiftDigits == 2 + 3

-----------------------------------------------------------------------------
(* The rate curve, in 1e-6 percent *)

\* faulty variant: the last USD tenor left out of the table
_CURVE_short ==
    [EUR |-> << 2336000, 2457000, 2627000, 2823000, 3012000,
                3173500, 3335000, 3463000, 3577000, 3692000,
                3802800, 3913600, 4024400, 4135200, 4246000 >>,
     USD |-> << 4215000, 4100000, 4127000, 4238000, 4382000,
                4547000, 4717000, 4873000, 5010000, 5132000,
                5241000, 5350000, 5426667, 5503333 >>]

_CURVE ==
    [EUR |-> << 2336000, 2457000, 2627000, 2823000, 3012000,
                3173500, 3335000, 3463000, 3577000, 3692000,
                3802800, 3913600, 4024400, 4135200, 4246000 >>,
     USD |-> << 4215000, 4100000, 4127000, 4238000, 4382000,
                4547000, 4717000, 4873000, 5010000, 5132000,
                5241000, 5350000, 5426667, 5503333, 5580000 >>]

\* the two messages of the ValueError the engine raises
UnsupportedCurrency == "Devise non supportee"
UnsupportedTerm == "Duree non disponible"

-----------------------------------------------------------------------------
(* Fee schedules, in 1e-7 *)

Tier1Limit == 10000000
Tier2Limit == 15000000

\* faulty variant: the breakpoints taken as inclusive upper limits
_retro_rate_inclusive(amount) ==
    IF amount <= Tier1Limit THEN 21000
    ELSE IF amount <= Tier2Limit THEN 18000
    ELSE 15000

_retro_rate(amount) ==
    IF amount < Tier1Limit THEN 21000
    ELSE IF amount < Tier2Limit THEN 18000
    ELSE 15000

_gestion_rate_with_retro(amount) ==
    IF amount < Tier1Limit THEN 49000
    ELSE IF amount < Tier2Limit THEN 42000
    ELSE 35000

\* faulty variant: the with-retrocession table returned for both modes
_gestion_rate_without_retro_copy(amount) ==
    _gestion_rate_with_retro(amount)

_gestion_rate_without_retro(amount) ==
    IF amount < Tier1Limit THEN 60000
    ELSE IF amount < Tier2Limit THEN 50000
    ELSE 40000

\* faulty variant: droits de garde = 0,05 %
garde_rate_halved == 10000 \div 2

\* droits de garde = 0,10 %
garde_rate == 10000

-----------------------------------------------------------------------------
(* Exact products on base-1000 digit sequences *)

Abs(n) == IF n < 0 THEN 0 - n ELSE n

RECURSIVE Digits(_)
Digits(n) == IF n = 0 THEN <<>> ELSE <<n % Base>> \o Digits(n \div Base)

RECURSIVE Carry(_, _)
Carry(raw, c) ==
    IF raw = <<>>
    THEN Digits(c)
    ELSE LET s == Head(raw) + c
         IN  <<s % Base>> \o Carry(Tail(raw), s \div Base)

RECURSIVE SumOver(_, _, _)
SumOver(x, y, pairs) ==
    IF pairs = {} THEN 0
    ELSE LET p == CHOOSE q \in pairs : TRUE
         IN  x[p[1]] * y[p[2]] + SumOver(x, y, pairs \ {p})

Mul(x, y) ==
    IF x = <<>> \/ y = <<>> THEN <<>>
    ELSE Carry([k \in 1..(Len(x) + Len(y) - 1) |->
                   SumOver(x, y, {p \in (1..Len(x)) \X (1..Len(y)) :
                                     p[1] + p[2] = k + 1})], 0)

DigitAt(x, i) == IF i <= Len(x) THEN x[i] ELSE 0

RECURSIVE Value(_, _)
Value(x, from) ==
    IF from > Len(x) THEN 0 ELSE x[from] + Base * Value(x, from + 1)

\* the quotient of x by Base^ShiftDigits
Quotient(x) == Value(x, ShiftDigits + 1)

\* the remainder of x by Base^ShiftDigits against half of Base^ShiftDigits
HalfCompare(x) ==
    LET top  == DigitAt(x, ShiftDigits)
        rest == \E i \in 1..(ShiftDigits - 1) : DigitAt(x, i) # 0
    IN  IF top > Base \div 2 \/ (top = Base \div 2 /\ rest) THEN "above"
        ELSE IF top = Base \div 2 THEN "tie"
        ELSE "below"

-----------------------------------------------------------------------------
(* Roundings *)

\* round(x, 6) of a non-negative rate in 1e-7, as a count of 1e-6
Round6(x, tieUp) ==
    LET q == x \div 10
        r == x % 10
    IN  IF r > 5 \/ (r = 5 /\ tieUp) THEN q + 1 ELSE q

\* faulty variant: int() without round(), the fraction dropped
RoundUnits_truncate(m, tieUp) == Quotient(m)

\* int(round(m / 1e15)) for the magnitude m of the net annuity
RoundUnits(m, tieUp) ==
    LET h == HalfCompare(m)
    IN  IF h = "above" \/ (h = "tie" /\ tieUp)
        THEN Quotient(m) + 1
        ELSE Quotient(m)

-----------------------------------------------------------------------------
(* compute_annuity *)

CurrencySupported(currency) == currency \in DOMAIN curve

TermSupported(currency, years) == years \in DOMAIN curve[currency]

\* faulty variant: one guard, with the message of the second check, for both
Validate_merged(currency, years) ==
    IF ~CurrencySupported(currency) \/ ~TermSupported(currency, years)
    THEN UnsupportedTerm
    ELSE ""

\* faulty variant: the second check raising the message of the first
Validate_same_message(currency, years) ==
    IF ~CurrencySupported(currency) THEN UnsupportedCurrency
    ELSE IF ~TermSupported(currency, years) THEN UnsupportedCurrency
    ELSE ""

\* the two checks that open compute_annuity: the message of the ValueError
\* raised, "" when the call goes on
Validate(currency, years) ==
    IF ~CurrencySupported(currency) THEN UnsupportedCurrency
    ELSE IF ~TermSupported(currency, years) THEN UnsupportedTerm
    ELSE ""

\* faulty variant: the percent value taken as the fraction
curve_rate_percent(currency, years) == curve[currency][years] * 100

\* the curve's market rate as a decimal fraction, in 1e-8
curve_rate(currency, years) == curve[currency][years]

\* faulty variant: the percent value converted in place, in the dict
CurveAfter_in_place(currency, years) ==
    IF currency \in DOMAIN curve
    THEN IF years \in DOMAIN curve[currency]
         THEN [curve EXCEPT ![currency][years] = @ \div 100]
         ELSE curve
    ELSE curve

\* _CURVE after the call: the engine reads the dict and assigns nothing in it
CurveAfter(currency, years) == curve

\* faulty variant: the two management tables taken one for the other
gestion_rate_swapped(amount, include_retro) ==
    IF include_retro
    THEN _gestion_rate_without_retro(amount)
    ELSE _gestion_rate_with_retro(amount)

\* faulty variant: the total capped just below 1
total_frais_capped(l) ==
    IF l.gestion_rate + l.garde_rate + l.contract_rate >= RateScale
    THEN RateScale - 1
    ELSE l.gestion_rate + l.garde_rate + l.contract_rate

gestion_rate(amount, include_retro) ==
    IF include_retro
    THEN _gestion_rate_with_retro(amount)
    ELSE _gestion_rate_without_retro(amount)

\* faulty variant: the retrocession schedule applied whatever the flag
retro_rate_always(amount, include_retro) == _retro_rate(amount)

retro_rate(amount, include_retro) ==
    IF include_retro THEN _retro_rate(amount) ELSE 0

\* faulty variant: the fee taken as given, negative or not
contract_rate_unclamped(extra_contract_fee) == extra_contract_fee

\* max(0.0, float(extra_contract_fee or 0.0)): a missing fee and a fee of
\* zero both give 0.0
contract_rate(extra_contract_fee) ==
    IF extra_contract_fee > 0 THEN extra_contract_fee ELSE 0

\* faulty variant: the retrocession added into the total
total_frais_plus_retro(l) ==
    l.gestion_rate + l.garde_rate + l.contract_rate + l.retro_rate

\* the total of the fees, from the rates computed before it
total_frais(l) == l.gestion_rate + l.garde_rate + l.contract_rate

\* the magnitude of amount * curve_rate * (1 - total_frais), in 1e-15
rente_nette_mag(amount, rate, total) ==
    Mul(Mul(Digits(amount), Digits(rate)), Digits(Abs(RateScale - total)))

rente_arrondie(amount, rate, total, tieUp) ==
    LET r == RoundUnits(rente_nette_mag(amount, rate, total), tieUp)
    IN  IF total > RateScale THEN 0 - r ELSE r

NoArgs ==
    [amount |-> 0, currency |-> "", years |-> 0,
     include_retro |-> FALSE, extra_contract_fee |-> 0]

NoLocals ==
    [curve_rate |-> 0, gestion_rate |-> 0, retro_rate |-> 0,
     garde_rate |-> 0, contract_rate |-> 0, total_frais |-> 0]

NoResult ==
    [rente_annuelle_arrondie |-> 0, gestion_rate |-> 0, retro_rate |-> 0,
     garde_rate |-> 0, frais_contrat |-> 0, total_frais |-> 0]

Locals(amount, currency, years, include_retro, extra_contract_fee) ==
    LET l == [curve_rate    |-> curve_rate(currency, years),
              gestion_rate  |-> gestion_rate(amount, include_retro),
              retro_rate    |-> retro_rate(amount, include_retro),
              garde_rate    |-> garde_rate,
              contract_rate |-> contract_rate(extra_contract_fee)]
    IN  [curve_rate    |-> l.curve_rate,
         gestion_rate  |-> l.gestion_rate,
         retro_rate    |-> l.retro_rate,
         garde_rate    |-> l.garde_rate,
         contract_rate |-> l.contract_rate,
         total_frais   |-> total_frais(l)]

ResultDict(amount, l) ==
    [rente_annuelle_arrondie |->
         rente_arrondie(amount, l.curve_rate, l.total_frais, fp.rente),
     gestion_rate  |-> Round6(l.gestion_rate, FALSE),
     retro_rate    |-> Round6(l.retro_rate, FALSE),
     garde_rate    |-> Round6(l.garde_rate, FALSE),
     frais_contrat |-> Round6(l.contract_rate, fp.fee),
     total_frais   |-> Round6(l.total_frais, fp.total)]

compute_annuity(amount, currency, years, include_retro, extra_contract_fee) ==
    /\ args' = [amount |-> amount, currency |-> currency, years |-> years,
                include_retro |-> include_retro,
                extra_contract_fee |-> extra_contract_fee]
    /\ curve' = CurveAfter(currency, years)
    /\ UNCHANGED <<fp, ref, otherVars>>
    /\ IF Validate(currency, years) # ""
       THEN /\ outcome' = "raised"
            /\ error' = Validate(currency, years)
            /\ locals' = NoLocals
            /\ result' = NoResult
       ELSE LET l == Locals(amount, currency, years, include_retro,
                            extra_contract_fee)
            IN  /\ outcome' = "returned"
                /\ error' = ""
                /\ locals' = l
                /\ result' = ResultDict(amount, l)

-----------------------------------------------------------------------------
(* The stand-alone engine, src/pricer_engine.py: compute(x: Inputs)
   Its fee rates are counted in 1e-7 like the others, its own curve in 1e-6
   percent.  An Optional field of Inputs is a sequence: <<>> is None and
   <<v>> the value v.  rente_brut comes out of float powers and divisions
   (factor, pv_equiv, acc) that no exact arithmetic reproduces; the model
   takes it as any value of a set, counted in 1/BrutScale, and computes
   from it what the code computes from it. *)

_CURVE_autonome ==
    [EUR |-> << 2325000, 2470000, 2651000, 2851000, 3038000,
                3150000, 3337000, 3453000, 3554000, 3659000,
                3770000, 3880000, 3990000, 4090000, 4200000 >>,
     USD |-> << 4200000, 4130000, 4188000, 4313000, 4457000,
                4610000, 4765000, 4906000, 5032000, 5144000,
                5230000, 5310000, 5390000, 5470000, 5555000 >>]

\* the KeyError of _CURVE[devise][int(duree)]
HasRate(devise, duree) ==
    /\ devise \in DOMAIN _CURVE_autonome
    /\ duree \in DOMAIN _CURVE_autonome[devise]

_rate_from_curve(devise, duree) == _CURVE_autonome[devise][duree]

_retro_tier(montant, retro_on) ==
    IF ~retro_on THEN 0
    ELSE IF montant < Tier1Limit THEN 21000
    ELSE IF montant < Tier2Limit THEN 18000
    ELSE 15000

_gestion_tier(montant, retro_on) ==
    IF retro_on
    THEN IF montant < Tier1Limit THEN 49000
         ELSE IF montant < Tier2Limit THEN 42000
         ELSE 35000
    ELSE IF montant < Tier1Limit THEN 60000
         ELSE IF montant < Tier2Limit THEN 50000
         ELSE 40000

\* the default of Inputs.garde_rate
garde_rate_default == 10000

\* rente_brut is counted in thousandths
BrutScale == 10 * 10 * 10

\* the 1000.0 that rente_brut is divided by and the ceiling multiplied by
RoundingStep == 1000

\* faulty variant: the floor
ceil_floor(num, den) == num \div den

\* math.ceil(num / den) for den > 0
ceil(num, den) == 0 - ((0 - num) \div den)

\* math.ceil(rente_brut / 1000.0) * 1000.0, in whole units
rente_arr(rente_brut) == ceil(rente_brut, RoundingStep * BrutScale) * RoundingStep

NoInputs ==
    [montant_disponible |-> 0, devise |-> "", duree |-> 0,
     retrocessions |-> FALSE, retro_rate |-> <<>>, gestion_rate |-> <<>>,
     garde_rate |-> <<>>]

NoOutputs ==
    [rente_annuelle_arrondie |-> 0, rente_annuelle_brut |-> 0,
     total_frais |-> 0, taux_direct |-> 0, retro_rate |-> 0,
     gestion_rate |-> 0, garde_rate |-> 0]

NoAlt == [x |-> NoInputs, outcome |-> "none", out |-> NoOutputs]

\* the Outputs of compute(x) when the float chain comes to rente_brut;
\* taux_moyen_pondere feeds rente_brut only and is left out with the chain
Outputs(x, rente_brut) ==
    LET retro == IF x.retro_rate = <<>>
                 THEN _retro_tier(x.montant_disponible, x.retrocessions)
                 ELSE x.retro_rate[1]
        gestion == IF x.gestion_rate = <<>>
                   THEN _gestion_tier(x.montant_disponible, x.retrocessions)
                   ELSE x.gestion_rate[1]
        garde == IF x.garde_rate # <<>> THEN x.garde_rate[1] ELSE 0
    IN  [rente_annuelle_arrondie |-> rente_arr(rente_brut),
         rente_annuelle_brut |-> rente_brut,
         total_frais |-> retro + gestion + garde,
         taux_direct |-> _rate_from_curve(x.devise, x.duree),
         retro_rate |-> retro,
         gestion_rate |-> gestion,
         garde_rate |-> garde]

-----------------------------------------------------------------------------
(* The database pool of src/app_pricer_cors.py *)

NoResponse == [status |-> 0, ok |-> FALSE, db |-> FALSE]

\* no call in flight.  events is the history of the call: what each
\* _get_pool, each pool.connection() and each action(conn) came to
NoDb ==
    [route |-> "", pc |-> "idle", attempt |-> 0, pool |-> 0,
     poolAtStart |-> 0, events |-> <<>>, ret |-> "pending",
     response |-> NoResponse]

\* range(3)
Attempts_four == 3 + 1

Attempts == 3

\* faulty variant: the pool is initialised on every call
NeedsInit_always(p) == TRUE

\* if _pool is None
NeedsInit(p) == p = 0

\* except (OperationalError, InterfaceError)
Caught(e) == e \in {"conn_transient", "action_transient"}

\* _with_db(lambda c: 1) is not None
health_db(ret) == ret = "value"

-----------------------------------------------------------------------------
(* The calls explored *)

\* terms tried run from -1 to MaxYears (the curve has 1..15)
MaxYears == 20

Amounts ==
    {1, 33, 5000000, Tier1Limit - 1, Tier1Limit, 12500000,
     Tier2Limit - 1, Tier2Limit, 20000000}

Currencies == {"EUR", "USD", "GBP"}

Years == (0 - 1)..MaxYears

\* extra contract fees, in 1e-7: negative, zero, below the sixth decimal,
\* an exact tie of the sixth decimal, 0.10 %, 0.12346 %, and fees that take
\* the total to 1 and beyond
Fees == {0 - 5000000, 0 - 1, 0, 4, 25, 10000, 12346, 9930000, 15000000}

\* no request answered; a status of 0 is no response
NoHttp == [variant |-> "", status |-> 0, calls |-> 0]

NoRef ==
    [args |-> NoArgs, outcome |-> "none", error |-> "", result |-> NoResult]

InitState(urls) ==
    /\ fp \in [fee : BOOLEAN, total : BOOLEAN, rente : BOOLEAN]
    /\ curve = _CURVE
    /\ ref = NoRef
    /\ http = NoHttp
    /\ alt = NoAlt
    /\ DATABASE_URL \in urls
    /\ _pool = 0
    /\ built = 0
    /\ established = 0
    /\ started = FALSE
    /\ db = NoDb
    /\ args = NoArgs
    /\ locals = NoLocals
    /\ outcome = "none"
    /\ error = ""
    /\ result = NoResult

\* os.getenv("DATABASE_URL", "") where the variable is not set
Init == InitState({""})

\* the caller has taken the outcome; the next call starts afresh
Done ==
    /\ outcome # "none" \/ http.status # 0 \/ alt.outcome # "none"
    /\ outcome' = "none"
    /\ http' = NoHttp
    /\ alt' = NoAlt
    /\ UNCHANGED dbVars
    /\ args' = NoArgs
    /\ locals' = NoLocals
    /\ error' = ""
    /\ result' = NoResult
    /\ UNCHANGED <<fp, curve, ref>>

\* the caller, holding no outcome, calls the engine
Call ==
    /\ outcome = "none"
    /\ UNCHANGED http
    /\ \E amount \in Amounts, currency \in Currencies, years \in Years,
          include_retro \in BOOLEAN, extra_contract_fee \in Fees :
           compute_annuity(amount, currency, years, include_retro,
                           extra_contract_fee)

Next == Call \/ Done

Spec == Init /\ [][Next]_vars

-----------------------------------------------------------------------------
(* Repeated calls: a few requests, any of them kept for comparison *)

RepeatAmounts == {5000000, Tier1Limit}
RepeatCurrencies == {"EUR", "GBP"}
RepeatYears == {5, MaxYears}
RepeatFees == {0 - 1, 25, 10000}

CallRepeat ==
    /\ outcome = "none"
    /\ UNCHANGED http
    /\ \E amount \in RepeatAmounts, currency \in RepeatCurrencies,
          years \in RepeatYears, include_retro \in BOOLEAN,
          extra_contract_fee \in RepeatFees :
           compute_annuity(amount, currency, years, include_retro,
                           extra_contract_fee)

\* the observer keeps the call just made and what came of it
Remember ==
    /\ outcome # "none"
    /\ ref.outcome = "none"
    /\ ref' = [args |-> args, outcome |-> outcome, error |-> error,
               result |-> result]
    /\ UNCHANGED <<engineVars, http, otherVars>>

NextRepeat == CallRepeat \/ Remember \/ Done

SpecRepeat == Init /\ [][NextRepeat]_vars

-----------------------------------------------------------------------------
(* The /compute routes of the two API variants *)

\* the status FastAPI answers with when the request body does not fit the
\* route's pydantic model
StatusUnprocessable == 422

\* the status of the HTTPException the GitHub route raises, which is also
\* the status of an exception that escapes a route
StatusServerError == 500

StatusOk == 200

\* the status of the response, from what the engine call came to: the dict
\* is returned as the body; the ValueError is caught by `except Exception`
\* and raised again as HTTPException(status_code=500) in the GitHub variant,
\* and leaves the route uncaught in the other
StatusOfOutcome(o) == IF o = "returned" THEN StatusOk ELSE StatusServerError

\* src/GitHub/app_pricer_cors.py: ComputeRequest.devise is
\* Literal["EUR", "USD"], so another currency is answered before the route
\* runs; a term is any int
compute_route_github(amount, devise, duree, retro, frais_contrat) ==
    IF devise \notin {"EUR", "USD"}
    THEN /\ http' = [variant |-> "GitHub", status |-> StatusUnprocessable,
                     calls |-> 0]
         /\ UNCHANGED <<engineVars, ref, otherVars>>
    ELSE /\ compute_annuity(amount, devise, duree, retro, frais_contrat)
         /\ http' = [variant |-> "GitHub",
                     status |-> StatusOfOutcome(outcome'), calls |-> 1]

\* src/app_pricer_cors.py: ComputeIn.devise is any str; the route calls the
\* engine once, with no try around the call
compute_route(amount, devise, duree, retro, frais_contrat) ==
    /\ compute_annuity(amount, devise, duree, retro, frais_contrat)
    /\ http' = [variant |-> "root",
                status |-> StatusOfOutcome(outcome'), calls |-> 1]

PostComputeGitHub ==
    /\ outcome = "none" /\ http.status = 0
    /\ \E amount \in RepeatAmounts, devise \in RepeatCurrencies,
          duree \in RepeatYears, retro \in BOOLEAN,
          frais_contrat \in RepeatFees :
           compute_route_github(amount, devise, duree, retro, frais_contrat)

PostCompute ==
    /\ outcome = "none" /\ http.status = 0
    /\ \E amount \in RepeatAmounts, devise \in RepeatCurrencies,
          duree \in RepeatYears, retro \in BOOLEAN,
          frais_contrat \in RepeatFees :
           compute_route(amount, devise, duree, retro, frais_contrat)

NextHttp == PostComputeGitHub \/ PostCompute \/ Done

SpecHttp == Init /\ [][NextHttp]_vars

-----------------------------------------------------------------------------
(* Calls of the stand-alone engine *)

\* compute(x): the KeyError of the curve lookup leaves the function before
\* anything is returned
compute(x, rente_brut) ==
    /\ alt' = IF HasRate(x.devise, x.duree)
              THEN [x |-> x, outcome |-> "returned",
                    out |-> Outputs(x, rente_brut)]
              ELSE [x |-> x, outcome |-> "raised", out |-> NoOutputs]
    /\ UNCHANGED <<engineVars, ref, http, dbVars>>

InputsExplored ==
    [montant_disponible : {5000000, Tier1Limit, Tier2Limit},
     devise : RepeatCurrencies,
     duree : RepeatYears,
     retrocessions : BOOLEAN,
     retro_rate : {<<>>, <<30000>>},
     gestion_rate : {<<>>, <<70000>>},
     garde_rate : {<<>>, <<garde_rate_default>>}]

\* values the float chain may come to, in thousandths: around zero, around
\* a multiple of 1000 on both sides, and the first example of the engine
BrutValues ==
    {0 - 1000001, 0 - 1000000, 0 - 999999, 0 - 1, 0, 1,
     999999, 1000000, 1000001, 113417115, 114000000}

CallCompute ==
    /\ alt.outcome = "none"
    /\ \E x \in InputsExplored, rente_brut \in BrutValues :
           compute(x, rente_brut)

NextAlt == CallCompute \/ Done

SpecAlt == Init /\ [][NextAlt]_vars

-----------------------------------------------------------------------------
(* The startup handler and the routes that use the database
   One call runs at a time.  _get_pool is two steps, the construction of
   the pool and the schema setup on a connection of it; each iteration of
   the loop of _with_db is _get_pool, then the action inside
   `with pool.connection()`, then the sleep before the next iteration. *)

\* the number of pools ever constructed in a run
MaxPools == 3

DbIdle == db.pc \in {"idle", "responded"}

Begin(route) ==
    db' = [NoDb EXCEPT !.route = route, !.pc = "get_pool",
                       !.poolAtStart = _pool]

\* @app.on_event("startup"): _get_pool() once, before any request
on_startup ==
    /\ ~started /\ db.pc = "idle"
    /\ Begin("startup")
    /\ UNCHANGED <<DATABASE_URL, _pool, built, established, started, nonDbVars>>

\* GET /health is called
health ==
    /\ started /\ DbIdle
    /\ Begin("health")
    /\ UNCHANGED <<DATABASE_URL, _pool, built, established, started, nonDbVars>>

\* POST /collect is called
collect ==
    /\ started /\ DbIdle
    /\ Begin("collect")
    /\ UNCHANGED <<DATABASE_URL, _pool, built, established, started, nonDbVars>>

\* what follows the return of _get_pool with the value p: the startup
\* handler ends; _with_db returns None when `not pool`, and goes on to
\* the action otherwise
AfterGetPool(p, event) ==
    db' = [db EXCEPT
             !.events = Append(@, event),
             !.pool = p,
             !.pc = IF db.route = "startup" \/ p = 0 THEN "ended"
                    ELSE "action",
             !.ret = IF db.route # "startup" /\ p = 0 THEN "None" ELSE @]

\* _get_pool up to the construction of the pool
_get_pool ==
    /\ db.pc = "get_pool"
    /\ UNCHANGED <<DATABASE_URL, established, started, nonDbVars>>
    /\ IF ~NeedsInit(_pool)
       THEN /\ AfterGetPool(_pool, "reuse")
            /\ UNCHANGED <<_pool, built>>
       ELSE IF DATABASE_URL = ""
       THEN \* _build_pool returns None
            /\ _pool' = 0
            /\ AfterGetPool(0, "build_none")
            /\ UNCHANGED built
       ELSE \/ \* ConnectionPool(...) raises
               /\ _pool' = 0
               /\ AfterGetPool(0, "build_raise")
               /\ UNCHANGED built
            \/ \* _pool = _build_pool()
               /\ built < MaxPools
               /\ built' = built + 1
               /\ _pool' = built + 1
               /\ db' = [db EXCEPT !.events = Append(@, "build_ok"),
                                   !.pc = "schema"]

\* with _pool.connection() as conn: _ensure_schema(conn)
_ensure_schema ==
    /\ db.pc = "schema"
    /\ UNCHANGED <<DATABASE_URL, built, started, nonDbVars>>
    /\ \/ /\ AfterGetPool(_pool, "schema_ok")
          /\ established' = IF established = 0 THEN _pool ELSE established
          /\ UNCHANGED _pool
       \/ \* except Exception: _pool = None
          /\ _pool' = 0
          /\ AfterGetPool(0, "schema_raise")
          /\ UNCHANGED established

\* what pool.connection() and action(conn) may come to: the lambda of
\* health raises nothing itself
ActionEvents(route) ==
    IF route = "health" THEN {"conn_transient", "action_ok"}
    ELSE {"conn_transient", "action_ok", "action_transient", "action_other"}

\* with pool.connection() as conn: return action(conn)
run_action ==
    /\ db.pc = "action"
    /\ UNCHANGED <<DATABASE_URL, _pool, built, established, started, nonDbVars>>
    /\ \E e \in ActionEvents(db.route) :
          db' = [db EXCEPT
                   !.events = Append(@, e),
                   !.pc = IF Caught(e) THEN "sleep" ELSE "ended",
                   !.ret = IF e = "action_ok" THEN "value"
                           ELSE IF Caught(e) THEN @
                           ELSE "raised"]

\* time.sleep(0.4 * (attempt + 1)), then the next iteration of the loop,
\* or `return None` after the last
retry ==
    /\ db.pc = "sleep"
    /\ UNCHANGED <<DATABASE_URL, _pool, built, established, started, nonDbVars>>
    /\ db' = [db EXCEPT
                !.attempt = @ + 1,
                !.pc = IF db.attempt + 1 < Attempts THEN "get_pool"
                       ELSE "ended",
                !.ret = IF db.attempt + 1 < Attempts THEN @ ELSE "None"]

\* the rest of the handler: health answers {"ok": True, "db": ok}, collect
\* answers {"ok": True}; an exception that left _with_db leaves the route
respond ==
    /\ db.pc = "ended"
    /\ UNCHANGED <<DATABASE_URL, _pool, built, established, nonDbVars>>
    /\ started' = TRUE
    /\ db' = [db EXCEPT
                !.pc = "responded",
                !.response =
                    IF db.route = "startup" THEN NoResponse
                    ELSE IF db.ret = "raised"
                    THEN [status |-> StatusServerError, ok |-> FALSE,
                          db |-> FALSE]
                    ELSE IF db.route = "health"
                    THEN [status |-> StatusOk, ok |-> TRUE,
                          db |-> health_db(db.ret)]
                    ELSE [status |-> StatusOk, ok |-> TRUE, db |-> FALSE]]

NextDb ==
    \/ on_startup \/ health \/ collect
    \/ _get_pool \/ _ensure_schema \/ run_action \/ retry \/ respond

\* the variable is not set, or it holds the address of a database
InitDb == InitState({"", "postgresql://"})

SpecDb == InitDb /\ [][NextDb]_vars

-----------------------------------------------------------------------------
(* Properties *)

Returned == outcome = "returned"

\* the rate tables of the specification, in 1e-6
SpecRetro(amount) ==
    IF amount < 10000000 THEN 2100
    ELSE IF amount < 15000000 THEN 1800
    ELSE 1500

SpecGestionWith(amount) ==
    IF amount < 10000000 THEN 4900
    ELSE IF amount < 15000000 THEN 4200
    ELSE 3500

SpecGestionWithout(amount) ==
    IF amount < 10000000 THEN 6000
    ELSE IF amount < 15000000 THEN 5000
    ELSE 4000

\* x (in 1e-6) is a rounding to six decimals of y (in 1e-7)
IsRound6(x, y) == 10 * x - y \in (0 - 5)..5

\* C1: whenever compute_annuity returns, the total fee rate it computed is
\* management rate + custody rate + contract fee rate and nothing else (the
\* retrocession rate is no term of it), with retrocession and without; the
\* total it reports is that sum rounded to six decimals.
C1_TotalIsGestionGardeContract ==
    Returned =>
        /\ locals.total_frais =
               locals.gestion_rate + locals.garde_rate + locals.contract_rate
        /\ IsRound6(result.total_frais,
                    10 * result.gestion_rate + 10 * result.garde_rate
                        + locals.contract_rate)

\* a call with retrocession, a non-zero retrocession rate and a contract fee
C1_Witness ==
    /\ Returned
    /\ args.include_retro
    /\ result.retro_rate > 0
    /\ locals.contract_rate > 0
    /\ result.total_frais > result.gestion_rate + result.garde_rate

\* C2: the retrocession rate returned is 0 when include_retro is false and
\* otherwise 0.0021 below 10,000,000, 0.0018 from 10,000,000 to below
\* 15,000,000 and 0.0015 from 15,000,000; no larger amount of the schedule
\* has a higher rate.
C2_RetroRate ==
    Returned =>
        /\ result.retro_rate =
               (IF args.include_retro THEN SpecRetro(args.amount) ELSE 0)
        /\ \A a \in Amounts :
               a >= args.amount =>
                   Round6(retro_rate(a, args.include_retro), FALSE)
                       <= result.retro_rate

\* a call with retrocession in the top tier
C2_Witness ==
    /\ Returned
    /\ args.include_retro
    /\ args.amount >= 15000000
    /\ result.retro_rate = 1500

\* C3: the management rate returned is 0.0049, 0.0042, 0.0035 with
\* retrocession and 0.0060, 0.0050, 0.0040 without, by the tier of the
\* amount; it is strictly lower in each higher tier, and for the amount of
\* the call the with-retrocession rate is strictly below the
\* without-retrocession rate.
C3_GestionRate ==
    Returned =>
        /\ result.gestion_rate =
               (IF args.include_retro
                THEN SpecGestionWith(args.amount)
                ELSE SpecGestionWithout(args.amount))
        /\ \A a \in Amounts :
               (\/ (args.amount < 10000000 /\ a >= 10000000)
                \/ (args.amount < 15000000 /\ a >= 15000000))
               => Round6(gestion_rate(a, args.include_retro), FALSE)
                      < result.gestion_rate
        /\ gestion_rate(args.amount, TRUE) < gestion_rate(args.amount, FALSE)

\* a call without retrocession in the middle tier
C3_Witness ==
    /\ Returned
    /\ ~args.include_retro
    /\ args.amount >= 10000000
    /\ args.amount < 15000000
    /\ result.gestion_rate = 5000

\* C4: an amount of exactly 10,000,000 gets the middle tier (retrocession
\* 0.0018, management 0.0042 with retrocession, 0.0050 without) and an
\* amount of exactly 15,000,000 the top tier (0.0015, 0.0035, 0.0040).
C4_TierBoundaries ==
    /\ (Returned /\ args.amount = 10000000) =>
           /\ result.gestion_rate =
                  (IF args.include_retro THEN 4200 ELSE 5000)
           /\ result.retro_rate = (IF args.include_retro THEN 1800 ELSE 0)
    /\ (Returned /\ args.amount = 15000000) =>
           /\ result.gestion_rate =
                  (IF args.include_retro THEN 3500 ELSE 4000)
           /\ result.retro_rate = (IF args.include_retro THEN 1500 ELSE 0)

\* a call at exactly 10,000,000 with retrocession
C4_Witness ==
    /\ Returned
    /\ args.amount = 10000000
    /\ args.include_retro
    /\ result.retro_rate = 1800
    /\ result.gestion_rate = 4200

\* C5: a call whose currency is no key of the rate curve raises the
\* unsupported-currency ValueError and returns no result, whatever the
\* other arguments.
C5_UnsupportedCurrencyRaises ==
    (outcome # "none" /\ args.currency \notin {"EUR", "USD"}) =>
        /\ outcome = "raised"
        /\ error = UnsupportedCurrency
        /\ result = NoResult

\* "GBP" with arguments that are otherwise accepted
C5_Witness ==
    /\ outcome = "raised"
    /\ error = UnsupportedCurrency
    /\ args.currency = "GBP"
    /\ args.years = 5
    /\ args.amount = 5000000

\* C6: a call with a supported currency and a term outside 1..15 (20, 0, a
\* negative term) raises the unsupported-term ValueError and returns no
\* result.
C6_UnsupportedTermRaises ==
    (/\ outcome # "none"
     /\ args.currency \in {"EUR", "USD"}
     /\ args.years \notin 1..15) =>
        /\ outcome = "raised"
        /\ error = UnsupportedTerm
        /\ result = NoResult

\* a term of 20 years in EUR
C6_Witness ==
    /\ outcome = "raised"
    /\ error = UnsupportedTerm
    /\ args.currency = "EUR"
    /\ args.years = 20

Scenario(include_retro) ==
    [amount |-> 5000000, currency |-> "EUR", years |-> 5,
     include_retro |-> include_retro, extra_contract_fee |-> 0]

\* C7: 5,000,000 EUR over 5 years with retrocession and no contract fee
\* returns management 0.0049, retrocession 0.0021, custody 0.0010, total
\* 0.0059 and an annuity of 149,711.
C7_ScenarioWithRetro ==
    (Returned /\ args = Scenario(TRUE)) =>
        result = [rente_annuelle_arrondie |-> 149711,
                  gestion_rate |-> 4900, retro_rate |-> 2100,
                  garde_rate |-> 1000, frais_contrat |-> 0,
                  total_frais |-> 5900]

C7_Witness ==
    /\ Returned
    /\ args = Scenario(TRUE)
    /\ result.rente_annuelle_arrondie = 149711

\* C8 as stated: the same call without retrocession returns management
\* 0.0060, retrocession 0, total 0.0070 and an annuity of 149,547.
C8_Original ==
    (Returned /\ args = Scenario(FALSE)) =>
        /\ result.gestion_rate = 6000
        /\ result.retro_rate = 0
        /\ result.total_frais = 7000
        /\ result.rente_annuelle_arrondie = 149547

\* C8, amended: the same call without retrocession returns management
\* 0.0060, retrocession 0, total 0.0070 and an annuity of 149,546
\* (5,000,000 x 0.03012 x 0.993 = 149,545.8).
C8_ScenarioWithoutRetro ==
    (Returned /\ args = Scenario(FALSE)) =>
        /\ result.gestion_rate = 6000
        /\ result.retro_rate = 0
        /\ result.total_frais = 7000
        /\ result.rente_annuelle_arrondie = 149546

C8_Witness ==
    /\ Returned
    /\ args = Scenario(FALSE)
    /\ result.total_frais = 7000

Max0(x) == IF x < 0 THEN 0 ELSE x

Accepted == args.currency \in {"EUR", "USD"} /\ args.years \in 1..15

\* C9 as stated: the contract fee rate used and the contract fee rate
\* reported are both max(0, extra contract fee), and no fee makes an
\* otherwise accepted call fail.
C9_Original ==
    /\ Returned =>
           /\ locals.contract_rate = Max0(args.extra_contract_fee)
           /\ 10 * result.frais_contrat = Max0(args.extra_contract_fee)
    /\ (outcome # "none" /\ Accepted) => Returned

\* C9, amended: the contract fee rate used in the total is max(0, extra
\* contract fee) unchanged; the rate reported is that value rounded to six
\* decimals, hence equal to it when the fee has no more than six decimals
\* and exactly 0 for a negative fee; no fee makes an otherwise accepted call
\* fail.
C9_ContractFeeClamped ==
    /\ Returned =>
           /\ locals.contract_rate = Max0(args.extra_contract_fee)
           /\ locals.total_frais - locals.gestion_rate - locals.garde_rate
                  = Max0(args.extra_contract_fee)
           /\ IsRound6(result.frais_contrat, Max0(args.extra_contract_fee))
           /\ args.extra_contract_fee % 10 = 0 =>
                  10 * result.frais_contrat = Max0(args.extra_contract_fee)
           /\ args.extra_contract_fee < 0 => result.frais_contrat = 0
    /\ (outcome # "none" /\ Accepted) => Returned

\* a negative fee, clamped, on a call that returns
C9_Witness ==
    /\ Returned
    /\ args.extra_contract_fee < 0
    /\ locals.contract_rate = 0
    /\ result.frais_contrat = 0

\* comparison and sum of digit sequences
RECURSIVE LeqFrom(_, _, _)
LeqFrom(x, y, i) ==
    IF i = 0 THEN TRUE
    ELSE IF x[i] # y[i] THEN x[i] < y[i]
    ELSE LeqFrom(x, y, i - 1)

Leq(x, y) ==
    \/ Len(x) < Len(y)
    \/ (Len(x) = Len(y) /\ LeqFrom(x, y, Len(x)))

Add(x, y) ==
    Carry([i \in 1..(IF Len(x) > Len(y) THEN Len(x) ELSE Len(y)) |->
              DigitAt(x, i) + DigitAt(y, i)], 0)

\* n units, and half a unit, in 1e-15
Units(n) == IF n = 0 THEN <<>> ELSE <<0, 0, 0, 0, 0>> \o Digits(n)
HalfUnit == <<0, 0, 0, 0, 500>>

\* C10: whenever compute_annuity returns, the annuity is an integer nearest
\* to amount x (curve percent value / 100) x (1 - total fee rate): it has
\* the sign of the product and lies within one half of it.
C10_AnnuityIsNearestInteger ==
    Returned =>
        LET m == Mul(Mul(Digits(args.amount),
                         Digits(_CURVE[args.currency][args.years])),
                     Digits(Abs(RateScale - locals.total_frais)))
            r == result.rente_annuelle_arrondie
        IN  /\ r > 0 => locals.total_frais < RateScale
            /\ r < 0 => locals.total_frais > RateScale
            /\ Leq(m, Add(Units(Abs(r)), HalfUnit))
            /\ Leq(Units(Abs(r)), Add(m, HalfUnit))

\* 33 USD over 13 years (5.426667 %): 1.78 units, rounded up to 2
C10_Witness ==
    /\ Returned
    /\ args.amount = 33
    /\ args.currency = "USD"
    /\ args.years = 13
    /\ result.rente_annuelle_arrondie = 2

\* C11: a call with the arguments of an earlier call, whatever calls came
\* between, has the outcome of the earlier call (the same dict, or the same
\* error), and the rate curve is at every moment the table of the module.
C11_DeterministicAndPure ==
    /\ curve = _CURVE
    /\ (outcome # "none" /\ ref.outcome # "none" /\ args = ref.args) =>
           /\ outcome = ref.outcome
           /\ error = ref.error
           /\ result = ref.result

\* a second call of a request kept earlier, returning the same dict
C11_Witness ==
    /\ Returned
    /\ ref.outcome = "returned"
    /\ args = ref.args
    /\ result = ref.result
    /\ result.rente_annuelle_arrondie > 0

\* C12: the curve has every tenor 1..15 for EUR and for USD; a call with
\* one of these pairs and a positive amount returns a dict whatever the
\* retrocession flag and the contract fee; and a call that fails fails with
\* one of the two ValueErrors, for an unknown currency or an unknown term.
C12_CurveCompleteOnlyTwoErrors ==
    /\ DOMAIN curve = {"EUR", "USD"}
    /\ \A c \in {"EUR", "USD"} : DOMAIN curve[c] = 1..15
    /\ (outcome # "none" /\ Accepted /\ args.amount > 0) => Returned
    /\ outcome = "raised" =>
           \/ error = UnsupportedCurrency
                  /\ args.currency \notin {"EUR", "USD"}
           \/ error = UnsupportedTerm
                  /\ args.currency \in {"EUR", "USD"}
                  /\ args.years \notin 1..15

\* the last tenor of the USD curve, with a fee above 1
C12_Witness ==
    /\ Returned
    /\ args.currency = "USD"
    /\ args.years = 15
    /\ args.amount > 0
    /\ args.extra_contract_fee > RateScale

\* the total the specification's tables give for the arguments, in 1e-7
SpecTotal(amount, include_retro, fee) ==
    10 * (IF include_retro
          THEN SpecGestionWith(amount)
          ELSE SpecGestionWithout(amount))
        + 10000 + Max0(fee)

SpecTotalOfCall ==
    SpecTotal(args.amount, args.include_retro, args.extra_contract_fee)

\* |amount x curve / 100 x (1 - total)| of the call, in 1e-15
ProductOfCall ==
    Mul(Mul(Digits(args.amount), Digits(_CURVE[args.currency][args.years])),
        Digits(Abs(RateScale - SpecTotalOfCall)))

\* C15 as stated: when management + custody + clamped contract fee is 1 or
\* more, the call still returns; the annuity returned is zero when the
\* total is 1 and negative when it is above 1 (for a positive amount); the
\* total is reported uncapped.
C15_Original ==
    (outcome # "none" /\ Accepted /\ SpecTotalOfCall >= RateScale) =>
        /\ Returned
        /\ locals.total_frais = SpecTotalOfCall
        /\ IsRound6(result.total_frais, SpecTotalOfCall)
        /\ SpecTotalOfCall = RateScale =>
               result.rente_annuelle_arrondie = 0
        /\ (SpecTotalOfCall > RateScale /\ args.amount > 0) =>
               result.rente_annuelle_arrondie < 0

\* C15, amended: when management + custody + clamped contract fee is 1 or
\* more, the call still returns and the total is reported uncapped; the
\* annuity returned is zero when the total is 1, and when the total is above
\* 1 (for a positive amount) it is negative or zero: zero only where the net
\* annuity is within one half of zero, negative only where it is one half
\* or more below zero.
C15_NoGuardOnTotal ==
    (outcome # "none" /\ Accepted /\ SpecTotalOfCall >= RateScale) =>
        /\ Returned
        /\ locals.total_frais = SpecTotalOfCall
        /\ IsRound6(result.total_frais, SpecTotalOfCall)
        /\ SpecTotalOfCall = RateScale =>
               result.rente_annuelle_arrondie = 0
        /\ (SpecTotalOfCall > RateScale /\ args.amount > 0) =>
               /\ result.rente_annuelle_arrondie <= 0
               /\ result.rente_annuelle_arrondie = 0 =>
                      Leq(ProductOfCall, HalfUnit)
               /\ result.rente_annuelle_arrondie < 0 =>
                      Leq(HalfUnit, ProductOfCall)

\* a fee of 1.5 on 5,000,000: a total of 1.507 reported, a negative annuity
C15_Witness ==
    /\ Returned
    /\ args.amount = 5000000
    /\ args.extra_contract_fee = 15000000
    /\ ~args.include_retro
    /\ result.total_frais = 1507000
    /\ result.rente_annuelle_arrondie < 0

\* the annuity compute_annuity returns for the arguments, with the given
\* direction at an exact half
RenteOf(amount, currency, years, include_retro, fee, tieUp) ==
    LET l == Locals(amount, currency, years, include_retro, fee)
    IN  rente_arrondie(amount, l.curve_rate, l.total_frais, tieUp)

\* the amounts explored that follow amount with none between
NextAmounts(amount) ==
    {a \in Amounts :
        a > amount /\ ~\E b \in Amounts : b > amount /\ b < a}

\* C19: for a positive amount, an accepted currency and term and a contract
\* fee that keeps the total below 1 in both modes, the annuity returned
\* with retrocession is at least the annuity returned without it, and the
\* next larger amount (the other arguments kept, a tier breakpoint crossed
\* or not) does not get a smaller annuity; step by step, so no larger
\* amount does.
C19_RetroAndAmountMonotone ==
    (/\ Returned
     /\ args.amount > 0
     /\ SpecTotal(args.amount, FALSE, args.extra_contract_fee) < RateScale) =>
        \A tieUp \in BOOLEAN :
            /\ args.include_retro =>
                   result.rente_annuelle_arrondie >=
                       RenteOf(args.amount, args.currency, args.years,
                               FALSE, args.extra_contract_fee, tieUp)
            /\ ~args.include_retro =>
                   result.rente_annuelle_arrondie <=
                       RenteOf(args.amount, args.currency, args.years,
                               TRUE, args.extra_contract_fee, tieUp)
            /\ \A a \in NextAmounts(args.amount) :
                   result.rente_annuelle_arrondie <=
                       RenteOf(a, args.currency, args.years,
                               args.include_retro,
                               args.extra_contract_fee, tieUp)

\* just below the first breakpoint, with retrocession
C19_Witness ==
    /\ Returned
    /\ args.amount = 9999999
    /\ args.include_retro
    /\ args.extra_contract_fee = 10000
    /\ result.rente_annuelle_arrondie >
           RenteOf(args.amount, args.currency, args.years, FALSE,
                   args.extra_contract_fee, TRUE)
    /\ result.rente_annuelle_arrondie <
           RenteOf(10000000, args.currency, args.years, TRUE,
                   args.extra_contract_fee, FALSE)

\* C13: when the engine rejects a request with one of its two ValueErrors,
\* the /compute route answers with a 4xx status, not a server error, having
\* called the engine once.
C13_RejectionIsClientError ==
    (http.status # 0 /\ outcome = "raised") =>
        /\ http.status \in 400..499
        /\ http.calls = 1

\* C14: in the stand-alone engine the retrocession rate is not part of the
\* total: total_frais is the management rate plus the custody rate, with
\* retrocessions or without.
C14_TotalWithoutRetro ==
    alt.outcome = "returned" =>
        alt.out.total_frais = alt.out.gestion_rate + alt.out.garde_rate

\* C18: in the stand-alone engine rente_annuelle_arrondie is
\* rente_annuelle_brut rounded up to a multiple of 1000: a multiple of 1000,
\* not below rente_annuelle_brut, and above it by less than 1000.
C18_RoundedUpToThousand ==
    alt.outcome = "returned" =>
        LET arr == alt.out.rente_annuelle_arrondie
            brut == alt.out.rente_annuelle_brut
        IN  /\ arr % RoundingStep = 0
            /\ arr * BrutScale >= brut
            /\ arr * BrutScale - brut < RoundingStep * BrutScale

\* a call returned a raw annuity that is no multiple of 1000, which the
\* rounding moved up to one
C18_Witness ==
    /\ alt.outcome = "returned"
    /\ alt.out.rente_annuelle_brut = 113417115
    /\ alt.out.rente_annuelle_arrondie = 114000

\* the events of the call in flight that are an invocation of the action,
\* a transient failure, the start of a _get_pool, a _get_pool returning None
InvocationEvents == {"action_ok", "action_transient", "action_other"}

TransientEvents == {"conn_transient", "action_transient"}

GetPoolEvents == {"reuse", "build_none", "build_raise", "build_ok"}

NoPoolEvents == {"build_none", "build_raise", "schema_raise"}

InitEvents == {"build_none", "build_raise", "build_ok", "schema_ok",
               "schema_raise"}

At(S) == {i \in DOMAIN db.events : db.events[i] \in S}

Last == Len(db.events)

Over == db.pc \in {"ended", "responded"}

\* C16: a call of _with_db invokes the action at most 3 times; a success
\* is the last thing it does and its value is what the call returns; a
\* transient failure that is not the third is followed by another attempt;
\* the third is followed by none and the call returns None; another
\* exception of the action is the last thing the call does and leaves it.
C16_WithDbRetries ==
    db.route \in {"health", "collect"} =>
        /\ Cardinality(At(InvocationEvents)) <= 3
        /\ \A i \in At({"action_ok"}) :
              i = Last /\ Over /\ db.ret = "value"
        /\ db.ret = "value" => Last \in At({"action_ok"})
        /\ \A i \in At(TransientEvents) :
              IF Cardinality({j \in At(TransientEvents) : j <= i}) < 3
              THEN \/ i = Last /\ db.pc \in {"sleep", "get_pool"}
                   \/ i < Last /\ db.events[i + 1] \in GetPoolEvents
              ELSE /\ i = Last
                   /\ db.pc = "sleep" \/ (Over /\ db.ret = "None")
        /\ \A i \in At({"action_other"}) :
              i = Last /\ Over /\ db.ret = "raised"
        /\ db.ret = "raised" => Last \in At({"action_other"})

\* a call of /collect has ended on None after three transient failures of
\* the action, one at each attempt
C16_Witness ==
    /\ db.route = "collect"
    /\ db.pc = "ended"
    /\ db.ret = "None"
    /\ db.events = <<"reuse", "action_transient", "reuse",
                     "action_transient", "reuse", "action_transient">>

====
